---- MODULE Spec2Model ----
(***************************************************************************)
(* Model of kitforge/matrix.py: dense matrices as lists of rows, the       *)
(* elimination routines det / solve / inverse, and the 2D/3D homogeneous   *)
(* transform builders and appliers.                                        *)
(*                                                                         *)
(* Numbers.  The module computes in Python floats (IEEE-754 binary64,      *)
(* round-to-nearest-even).  A finite double is modelled bit-exactly as     *)
(*     [sign, exp, hi, lo]   with value (-1)^sign * (hi*2^27 + lo) * 2^exp *)
(* where the 53-bit significand hi*2^27+lo lies in [2^52, 2^53) for a      *)
(* non-zero number, and hi = lo = exp = 0 for a zero (sign kept, as IEEE   *)
(* keeps it).  The significand is split in two because the model checker's *)
(* integers are 32 bits wide.                                              *)
(*                                                                         *)
(* Domain.  The entries of the vectors and matrices of the model are       *)
(* Python floats.  An int entry n of a documented example, as in           *)
(* det([[1,2],[2,4]]), is modelled by float(n): on such entries the code   *)
(* computes the same values, because int and float arithmetic agree as     *)
(* long as every int product and every int partial sum stays below 2^53    *)
(* in magnitude, and the entries the model draws are far below that.       *)
(* Where the code stays in exact int arithmetic past 2^53 (sum() over int  *)
(* products in dot) the float computation rounds and the int computation   *)
(* does not: int entries of that size are outside the model.  Infinities,  *)
(* NaNs and subnormals are outside the model as well: the inputs are       *)
(* bounded so that no exponent leaves the normal range.                    *)
(***************************************************************************)
EXTENDS Integers, Sequences, FiniteSets, TLC

W == 2^27

F(s, e, h, l) == [sign |-> s, exp |-> e, hi |-> h, lo |-> l]

IsZero(x) == x.hi = 0 /\ x.lo = 0

\* one step of the binary search for the top bit of n: a more to skip if
\* n has a bit at position a + w or above
BitLenStep(n, a, w) == IF n \div 2^(a + w) >= 1 THEN a + w ELSE a

\* the number of bits of n, for 0 <= n < 2^31
BitLen(n) ==
    IF n = 0 THEN 0
    ELSE 1 + BitLenStep(n, BitLenStep(n, BitLenStep(n, BitLenStep(n,
                 BitLenStep(n, 0, 16), 8), 4), 2), 1)

\* OR a sticky flag into the lowest bit of a limb
Sticky(l, c) == IF c /\ l % 2 = 0 THEN l + 1 ELSE l

\* <<h, l>> shifted right by d bits, the bits shifted out ORed into bit 0
RECURSIVE ShiftRightSticky(_, _, _)
ShiftRightSticky(h, l, d) ==
    IF d = 0 THEN <<h, l>>
    ELSE IF h = 0 /\ l = 0 THEN <<0, 0>>
    ELSE IF d >= 27
         THEN ShiftRightSticky(h \div W, Sticky(h % W, l # 0), d - 27)
         ELSE <<h \div 2^d,
                Sticky((l \div 2^d) + (h % 2^d) * 2^(27 - d), l % 2^d # 0)>>

\* <<h, l>> shifted left by k bits (the result fits 57 bits)
ShiftLeft(h, l, k) ==
    IF k = 0 THEN <<h, l>>
    ELSE IF k >= 27 THEN <<(IF h = 0 THEN 0 ELSE h * 2^k) + l * 2^(k - 27), 0>>
    ELSE <<h * 2^k + (l \div 2^(27 - k)), (l % 2^(27 - k)) * 2^k>>

\* the double of sign s, significand <<mh, ml>> (ml = 2^27 after a carry out
\* of the low limb) and exponent e
Pack(s, e, mh, ml) ==
    IF ml # W THEN F(s, e, mh, ml)
    ELSE IF mh + 1 = 2^26 THEN F(s, e + 1, 2^25, 0)
    ELSE F(s, e, mh + 1, 0)

\* round to nearest, ties to even: the 53-bit significand <<mh, ml>> followed
\* by three more bits rem, the last of them sticky
RoundEven(s, e, mh, ml, rem) ==
    Pack(s, e, mh, IF rem > 4 \/ (rem = 4 /\ ml % 2 = 1) THEN ml + 1 ELSE ml)

\* t = <<h, l>> holds a 56-bit number: 53 bits of significand and three more
Round56(s, e, t) ==
    RoundEven(s, e + 3, t[1] \div 8, (t[1] % 8) * 2^24 + (t[2] \div 8), t[2] % 8)

\* <<h, l>> has len bits: bring it to 56 bits, then round
Normalize(s, e, h, l, len) ==
    Round56(s, e + (len - 56),
            IF len > 56 THEN ShiftRightSticky(h, l, len - 56)
            ELSE ShiftLeft(h, l, 56 - len))

\* The double nearest to (-1)^s * (h*2^27 + l) * 2^e, where h*2^27+l < 2^57 is
\* exact or carries a sticky bit in bit 0 with at least two more bits below
\* the final unit.
RoundPack(s, e, h, l) ==
    IF h = 0 /\ l = 0 THEN F(s, 0, 0, 0)
    ELSE Normalize(s, e, h, l, IF h = 0 THEN BitLen(l) ELSE 27 + BitLen(h))

\* float(n) for a Python int of small magnitude
FromInt(n) == RoundPack(IF n < 0 THEN 1 ELSE 0, 0, 0, IF n < 0 THEN -n ELSE n)

FNeg(x) == [x EXCEPT !.sign = 1 - x.sign]

\* abs(x)
FAbs(x) == [x EXCEPT !.sign = 0]

\* magnitude comparison of two doubles: -1, 0, 1
CmpMag(x, y) ==
    IF IsZero(x) THEN (IF IsZero(y) THEN 0 ELSE -1)
    ELSE IF IsZero(y) THEN 1
    ELSE IF x.exp # y.exp THEN (IF x.exp < y.exp THEN -1 ELSE 1)
    ELSE IF x.hi # y.hi THEN (IF x.hi < y.hi THEN -1 ELSE 1)
    ELSE IF x.lo # y.lo THEN (IF x.lo < y.lo THEN -1 ELSE 1)
    ELSE 0

\* x < y
FLt(x, y) ==
    IF IsZero(x) /\ IsZero(y) THEN FALSE
    ELSE IF IsZero(x) THEN y.sign = 0
    ELSE IF IsZero(y) THEN x.sign = 1
    ELSE IF x.sign # y.sign THEN x.sign = 1
    ELSE CmpMag(x, y) = (IF x.sign = 0 THEN -1 ELSE 1)

\* x > y
FGt(x, y) == FLt(y, x)

\* x == y (the two zeros are equal)
FEq(x, y) == (IsZero(x) /\ IsZero(y)) \/ x = y

\* the significand of x with three zero bits appended
Widen(x) == <<x.hi * 8 + (x.lo \div 2^24), (x.lo % 2^24) * 8>>

\* <<ah, al>> + <<bh, bl>> as a double of sign s and exponent e
AddMag(s, e, ah, al, bh, bl) ==
    RoundPack(s, e, ah + bh + ((al + bl) \div W), (al + bl) % W)

\* <<ah, al>> - <<bh, bl>> >= 0 as a double of sign s and exponent e; an
\* exact zero difference is +0.0
SubMag(s, e, ah, al, bh, bl) ==
    IF ah = bh /\ al = bl THEN F(0, 0, 0, 0)
    ELSE RoundPack(s, e, IF al < bl THEN ah - bh - 1 ELSE ah - bh,
                   IF al < bl THEN al - bl + W ELSE al - bl)

\* a + b for |a| >= |b| > 0, a = <<ah, al>> widened and b widened and
\* shifted to the exponent of a as bs
AddAligned(a, b, aw, bs) ==
    IF a.sign = b.sign
    THEN AddMag(a.sign, a.exp - 3, aw[1], aw[2], bs[1], bs[2])
    ELSE SubMag(a.sign, a.exp - 3, aw[1], aw[2], bs[1], bs[2])

\* a + b for |a| >= |b| > 0
AddOrdered(a, b) ==
    AddAligned(a, b, Widen(a),
               ShiftRightSticky(Widen(b)[1], Widen(b)[2], a.exp - b.exp))

\* x + y
FAdd(x, y) ==
    IF IsZero(x) /\ IsZero(y)
    THEN F(IF x.sign = 1 /\ y.sign = 1 THEN 1 ELSE 0, 0, 0, 0)
    ELSE IF IsZero(x) THEN y
    ELSE IF IsZero(y) THEN x
    ELSE AddOrdered(IF CmpMag(x, y) = -1 THEN y ELSE x,
                    IF CmpMag(x, y) = -1 THEN x ELSE y)

\* x - y
FSub(x, y) == FAdd(x, FNeg(y))

\* the significand of x as four 14-bit limbs, lowest first
\* (bits 0-13, 14-27, 28-41, 42-52)
Limbs(x) ==
    <<x.lo % 2^14,
      (x.lo \div 2^14) + (x.hi % 2) * 2^13,
      (x.hi \div 2) % 2^14,
      x.hi \div 2^15>>

\* the product of limb i of a and limb k - i of b, if there are such limbs
LimbTerm(a, b, i, k) ==
    IF k - i >= 0 /\ k - i <= 3 THEN a[i + 1] * b[k - i + 1] ELSE 0

\* column k of the product plus the carry into it
Column(a, b, k, carry) ==
    LimbTerm(a, b, 0, k) + LimbTerm(a, b, 1, k) + LimbTerm(a, b, 2, k)
    + LimbTerm(a, b, 3, k) + carry

\* the limbs of the product from column k on, lowest first, given the lower
\* limbs p and the carry into column k
RECURSIVE MulColumns(_, _, _, _, _)
MulColumns(a, b, k, carry, p) ==
    IF k > 6 THEN Append(p, carry)
    ELSE MulColumns(a, b, k + 1, Column(a, b, k, carry) \div 2^14,
                    Append(p, Column(a, b, k, carry) % 2^14))

\* the double nearest to (-1)^s * p * 2^(e - 50), p given by its eight 14-bit
\* limbs: p shifted right by 50 bits with a sticky bit, then rounded
MulRound(s, e, p) ==
    RoundPack(s, e,
              (p[6] \div 2^7) + p[7] * 2^7 + p[8] * 2^21,
              Sticky((p[4] \div 2^8) + p[5] * 2^6 + (p[6] % 2^7) * 2^20,
                     p[1] # 0 \/ p[2] # 0 \/ p[3] # 0 \/ p[4] % 2^8 # 0))

\* x * y
FMul(x, y) ==
    IF IsZero(x) \/ IsZero(y) THEN F(IF x.sign = y.sign THEN 0 ELSE 1, 0, 0, 0)
    ELSE MulRound(IF x.sign = y.sign THEN 0 ELSE 1, x.exp + y.exp + 50,
                  MulColumns(Limbs(x), Limbs(y), 0, 0, <<>>))

\* the state <<rh, rl, qh, ql>> of the long division after the remainder,
\* doubled to <<h2, l2>>, is compared with the divisor d and the quotient,
\* doubled, is q2 before its new bit
DivSubtract(d, h2, l2, q2) ==
    IF h2 > d[1] \/ (h2 = d[1] /\ l2 >= d[2])
    THEN <<IF l2 < d[2] THEN h2 - d[1] - 1 ELSE h2 - d[1],
           IF l2 < d[2] THEN l2 - d[2] + W ELSE l2 - d[2],
           q2[1], q2[2] + 1>>
    ELSE <<h2, l2, q2[1], q2[2]>>

\* one step of the long division by d = <<dh, dl>>: st = <<rh, rl, qh, ql>> is
\* the remainder (below d) and the quotient so far; one more quotient bit
DivStep(st, d) ==
    DivSubtract(d, 2 * st[1] + ((2 * st[2]) \div W), (2 * st[2]) % W,
                <<2 * st[3] + ((2 * st[4]) \div W), (2 * st[4]) % W>>)

\* n steps of the long division, in two parts
RECURSIVE DivBits(_, _, _)
DivBits(st, d, n) ==
    IF n = 0 THEN st
    ELSE IF n = 1 THEN DivStep(st, d)
    ELSE LET half == DivBits(st, d, n \div 2)
         IN  \* (the test is always true: it has the first half computed
             \* before the second starts)
             IF half[1] >= 0 THEN DivBits(half, d, n - (n \div 2)) ELSE half

\* the quotient q = <<rh, rl, qh, ql>> of the significands rounded: 56
\* quotient bits, the last made sticky by a non-zero remainder
DivRound(s, e, q) ==
    RoundPack(s, e, q[3], Sticky(q[4], q[1] # 0 \/ q[2] # 0))

\* the remainder and first quotient bit of the significand of x over that of y
DivFirst(x, y) ==
    IF x.hi > y.hi \/ (x.hi = y.hi /\ x.lo >= y.lo)
    THEN <<IF x.lo < y.lo THEN x.hi - y.hi - 1 ELSE x.hi - y.hi,
           IF x.lo < y.lo THEN x.lo - y.lo + W ELSE x.lo - y.lo,
           0, 1>>
    ELSE <<x.hi, x.lo, 0, 0>>

\* x / y for y # 0
FDiv(x, y) ==
    IF IsZero(x) THEN F(IF x.sign = y.sign THEN 0 ELSE 1, 0, 0, 0)
    ELSE DivRound(IF x.sign = y.sign THEN 0 ELSE 1, x.exp - y.exp - 55,
                  DivBits(DivFirst(x, y), <<y.hi, y.lo>>, 55))

(***************************************************************************)
(* Python objects.  A vector or a row is a sequence of doubles; a matrix   *)
(* value is a sequence of rows.  Indices are written 0-based as in the     *)
(* source and shifted by one at the sequence access.  A raise is modelled  *)
(* by the error kind of its raise site.                                    *)
(***************************************************************************)
Zero == F(0, 0, 0, 0)
MinusOne == F(1, -52, 2^25, 0)
One == F(0, -52, 2^25, 0)

\* the tolerance of det, solve and inverse: 1e-12
eps == F(0, -92, 36893488, 19786257)

Val(v) == [kind |-> "value", val |-> v, err |-> "-"]
Err(e) == [kind |-> "error", val |-> <<>>, err |-> e]
NoOutcome == [kind |-> "none", val |-> <<>>, err |-> "-"]

IsVal(o) == o.kind = "value"
Raises(o, e) == o.kind = "error" /\ o.err = e

\* shape(A): (rows, cols), or InvalidShape
shape(A) ==
    IF Len(A) = 0 THEN Err("InvalidShape")
    ELSE IF Len(A[1]) = 0 THEN Err("InvalidShape")
    ELSE IF \E i \in 1..Len(A) : Len(A[i]) # Len(A[1]) THEN Err("InvalidShape")
    ELSE Val(<<Len(A), Len(A[1])>>)

\* zeros(rows, cols, value)
zeros(rows, cols, value) ==
    IF rows <= 0 \/ cols <= 0 THEN Err("InvalidShape")
    ELSE Val([i \in 1..rows |-> [j \in 1..cols |-> value]])

\* identity(n)
identity(n) ==
    IF n <= 0 THEN Err("InvalidShape")
    ELSE LET I == zeros(n, n, Zero).val
             \* for i in range(n): I[i][i] = 1.0
         IN  Val([i \in 1..n |-> [j \in 1..n |-> IF j = i THEN One ELSE I[i][j]]])

\* transpose(A)
transpose(A) ==
    LET sh == shape(A)
    IN  IF ~IsVal(sh) THEN sh
        ELSE Val([j \in 1..sh.val[2] |-> [i \in 1..sh.val[1] |-> A[i][j]]])

\* TRUE.  The evaluator computes an argument only when it is first used;
\* Ready(v) at the head of a loop has each iteration's value computed before
\* the next iteration starts.
Ready(v) == v = v

\* sum(...) over float terms in order, starting from the int 0: 0 + t is
\* float(0) + t, and every later addition is a float addition.  (Over int
\* terms Python adds exactly; see Domain in the header.)
RECURSIVE PySum(_, _, _)
PySum(terms, k, acc) ==
    IF k > Len(terms) \/ ~Ready(acc) THEN acc
    ELSE PySum(terms, k + 1, FAdd(acc, terms[k]))

\* dot(a, b) on float entries
dot(a, b) ==
    IF Len(a) # Len(b) THEN Err("DimensionMismatch")
    ELSE Val(PySum([k \in 1..Len(a) |-> FMul(a[k], b[k])], 1, Zero))

\* out[i][j] of matmul: 0.0 += A[i][k] * B[k][j] for k = 0, 1, ...
RECURSIVE MatmulCell(_, _, _, _, _, _)
MatmulCell(A, B, i, j, k, acc) ==
    IF k > Len(B) \/ ~Ready(acc) THEN acc
    ELSE MatmulCell(A, B, i, j, k + 1, FAdd(acc, FMul(A[i][k], B[k][j])))

\* matmul(A, B)
matmul(A, B) ==
    LET sa == shape(A)
        sb == shape(B)
    IN  IF ~IsVal(sa) THEN sa
        ELSE IF ~IsVal(sb) THEN sb
        ELSE IF sa.val[2] # sb.val[1] THEN Err("DimensionMismatch")
        ELSE Val([i \in 1..sa.val[1] |->
                    [j \in 1..sb.val[2] |-> MatmulCell(A, B, i, j, 1, Zero)]])

\* matvec(A, v)
matvec(A, v) ==
    LET sh == shape(A)
    IN  IF ~IsVal(sh) THEN sh
        ELSE IF Len(v) # sh.val[2] THEN Err("DimensionMismatch")
        ELSE Val([i \in 1..Len(A) |-> dot(A[i], v).val])

\* a sequence without its element at 0-based index k (unchanged if k is no index)
Without(s, k) ==
    IF k < 0 \/ k >= Len(s) THEN s
    ELSE [i \in 1..(Len(s) - 1) |-> IF i <= k THEN s[i] ELSE s[i + 1]]

\* minor(A, row_to_remove, col_to_remove)
minor(A, row_to_remove, col_to_remove) ==
    LET sh == shape(A)
    IN  IF ~IsVal(sh) THEN sh
        ELSE LET rows == Without(A, row_to_remove)
             IN  Val([i \in 1..Len(rows) |-> Without(rows[i], col_to_remove)])

(***************************************************************************)
(* The heap.  Lists are objects: heap[a] is the list at address a, a row   *)
(* (a sequence of doubles) or an outer list (a sequence of row addresses). *)
(* A new list takes the next address.                                      *)
(***************************************************************************)
\* the matrix value held by the outer list at address a
Load(heap, a) == [i \in 1..Len(heap[a]) |-> heap[heap[a][i]]]

\* allocate the rows, then the outer list, which gets address Len of the result
StoreRows(heap, rows) ==
    heap \o rows \o <<[i \in 1..Len(rows) |-> Len(heap) + i]>>

\* M = [row for row in A]: a new outer list over the caller's own rows
AliasRows(heap, A) == heap \o <<heap[A]>>

\* M = [row[:] for row in A]
CopyRows(heap, A) == StoreRows(heap, Load(heap, A))

\* M[r][k]
Get(heap, M, r, k) == heap[heap[M][r + 1]][k + 1]

\* M[r][k] = v
Put(heap, M, r, k, v) == [heap EXCEPT ![heap[M][r + 1]][k + 1] = v]

\* M[i], M[j] = M[j], M[i]
SwapRows(heap, M, i, j) ==
    [heap EXCEPT ![M] = [@ EXCEPT ![i + 1] = heap[M][j + 1],
                                  ![j + 1] = heap[M][i + 1]]]

\* for k in range(k, stop): M[r][k] -= factor * M[col][k]
RECURSIVE RowSubtract(_, _, _, _, _, _, _)
RowSubtract(heap, M, r, col, factor, k, stop) ==
    IF k >= stop \/ ~Ready(heap) THEN heap
    ELSE RowSubtract(Put(heap, M, r, k,
                         FSub(Get(heap, M, r, k), FMul(factor, Get(heap, M, col, k)))),
                     M, r, col, factor, k + 1, stop)

\* for j in range(j, stop): M[col][j] /= pivot
RECURSIVE RowDivide(_, _, _, _, _, _)
RowDivide(heap, M, col, pivot, j, stop) ==
    IF j >= stop \/ ~Ready(heap) THEN heap
    ELSE RowDivide(Put(heap, M, col, j, FDiv(Get(heap, M, col, j), pivot)),
                   M, col, pivot, j + 1, stop)

\* det's pivot scan over r in range(r, n): <<pivot_row, max_abs>>, pivot_row
\* -1 for None
RECURSIVE DetPivot(_, _, _, _, _, _, _)
DetPivot(heap, M, col, n, r, pivot_row, max_abs) ==
    IF r >= n THEN <<pivot_row, max_abs>>
    ELSE IF FGt(FAbs(Get(heap, M, r, col)), max_abs)
         THEN DetPivot(heap, M, col, n, r + 1, r, FAbs(Get(heap, M, r, col)))
         ELSE DetPivot(heap, M, col, n, r + 1, pivot_row, max_abs)

\* the singular shortcut taken also at a maximum equal to the tolerance
DetSingular_at_most_eps(pivot_row, max_abs) == pivot_row = -1 \/ ~FGt(max_abs, eps)

\* det's test for the singular shortcut
DetSingular(pivot_row, max_abs) == pivot_row = -1 \/ FLt(max_abs, eps)

\* the test that skips a row in the elimination loops
SkipRow(factor) == FLt(FAbs(factor), eps)

\* the body of an elimination loop for row r, once factor is known:
\* if abs(factor) < eps: continue; else subtract over range(start, stop)
EliminateRow(heap, M, r, col, factor, start, stop) ==
    IF SkipRow(factor) THEN heap
    ELSE RowSubtract(heap, M, r, col, factor, start, stop)

\* det's "eliminate below": for r in range(r, n)
RECURSIVE DetEliminate(_, _, _, _, _, _)
DetEliminate(heap, M, col, pivot, r, n) ==
    IF r >= n \/ ~Ready(heap) THEN heap
    ELSE DetEliminate(EliminateRow(heap, M, r, col,
                                   FDiv(Get(heap, M, r, col), pivot), col, n),
                      M, col, pivot, r + 1, n)

\* The result of a run of det: the heap, the address M of the working copy
\* (0: none made), the outcome, and what happened on the way: swaps counts the
\* row exchanges, maxes lists max_abs at each column visited, shortcut is the
\* column at which 0.0 was returned early (-1: none).
DetResult(heap, M, out, swaps, shortcut, maxes) ==
    [heap |-> heap, M |-> M, out |-> out,
     swaps |-> swaps, shortcut |-> shortcut, maxes |-> maxes]

RECURSIVE DetLoop(_, _, _, _, _, _, _, _)

\* det at column col with the pivot row in place: pivot, det_val *= pivot,
\* eliminate below, next column
DetPivoted(heap, M, col, n, det_val, sign, swaps, maxes) ==
    DetLoop(DetEliminate(heap, M, col, Get(heap, M, col, col), col + 1, n),
            M, col + 1, n, FMul(det_val, Get(heap, M, col, col)), sign, swaps, maxes)

\* det at column col after the pivot scan found pivot_row and max_abs
DetColumn(heap, M, col, n, det_val, sign, swaps, maxes, pivot_row, max_abs) ==
    IF DetSingular(pivot_row, max_abs)
    THEN DetResult(heap, M, Val(Zero), swaps, col, Append(maxes, max_abs))
    ELSE IF pivot_row # col
    THEN DetPivoted(SwapRows(heap, M, col, pivot_row), M, col, n, det_val,
                    FMul(sign, MinusOne), swaps + 1, Append(maxes, max_abs))
    ELSE DetPivoted(heap, M, col, n, det_val, sign, swaps, Append(maxes, max_abs))

\* the pivot scan of det at column col: max_abs = 0.0, pivot_row = None
DetScan(heap, M, col, n) == DetPivot(heap, M, col, n, col, -1, Zero)

\* det's loop over col in range(col, n), and its return sign * det_val
DetLoop(heap, M, col, n, det_val, sign, swaps, maxes) ==
    IF col >= n \/ ~Ready(heap)
    THEN DetResult(heap, M, Val(FMul(sign, det_val)), swaps, -1, maxes)
    ELSE DetColumn(heap, M, col, n, det_val, sign, swaps, maxes,
                   DetScan(heap, M, col, n)[1], DetScan(heap, M, col, n)[2])

\* det once the working copy is made: it is the last list of heap
DetCopied(heap, n) == DetLoop(heap, Len(heap), 0, n, One, One, 0, <<>>)

\* det once shape(A) has returned sh
DetShaped(heap, A, sh) ==
    IF ~IsVal(sh) THEN DetResult(heap, 0, sh, 0, -1, <<>>)
    ELSE IF sh.val[1] # sh.val[2]
    THEN DetResult(heap, 0, Err("ShapeMismatch"), 0, -1, <<>>)
    ELSE DetCopied(CopyRows(heap, A), sh.val[1])

\* det(A) for the matrix at address A
DetRun(heap, A) == DetShaped(heap, A, shape(Load(heap, A)))

\* max(range(r, n), key=lambda r: abs(M[r][col])): the first row of largest
\* magnitude, best being the candidate so far
RECURSIVE MaxPivot(_, _, _, _, _, _)
MaxPivot(heap, M, col, n, r, best) ==
    IF r >= n THEN best
    ELSE IF FGt(FAbs(Get(heap, M, r, col)), FAbs(Get(heap, M, best, col)))
         THEN MaxPivot(heap, M, col, n, r + 1, r)
         ELSE MaxPivot(heap, M, col, n, r + 1, best)

\* the test of solve and inverse for a singular matrix
PivotTooSmall(v) == FLt(FAbs(v), eps)

\* the result of an elimination: the heap, and whether every pivot passed
Eliminated(heap, ok) == [heap |-> heap, ok |-> ok]

\* the result of a run of solve or inverse
RunResult(heap, M, out) == [heap |-> heap, M |-> M, out |-> out]

\* M[col], M[pivot_row] = M[pivot_row], M[col] if pivot_row != col
SwapIfNeeded(heap, M, col, pivot_row) ==
    IF pivot_row # col THEN SwapRows(heap, M, col, pivot_row) ELSE heap

\* solve's "eliminate below": for r in range(r, n)
RECURSIVE SolveEliminate(_, _, _, _, _)
SolveEliminate(heap, M, col, r, n) ==
    IF r >= n \/ ~Ready(heap) THEN heap
    ELSE SolveEliminate(EliminateRow(heap, M, r, col, Get(heap, M, r, col),
                                     col, n + 1),
                        M, col, r + 1, n)

RECURSIVE SolveLoop(_, _, _, _)

\* solve at column col with the pivot row in place: normalize the pivot row,
\* eliminate below, next column
SolvePivoted(heap, M, col, n) ==
    SolveLoop(SolveEliminate(RowDivide(heap, M, col, Get(heap, M, col, col),
                                       col, n + 1),
                             M, col, col + 1, n),
              M, col + 1, n)

\* solve at column col once pivot_row is chosen
SolveColumn(heap, M, col, n, pivot_row) ==
    IF PivotTooSmall(Get(heap, M, pivot_row, col)) THEN Eliminated(heap, FALSE)
    ELSE SolvePivoted(SwapIfNeeded(heap, M, col, pivot_row), M, col, n)

\* solve's forward elimination: for col in range(col, n)
SolveLoop(heap, M, col, n) ==
    IF col >= n \/ ~Ready(heap) THEN Eliminated(heap, TRUE)
    ELSE SolveColumn(heap, M, col, n, MaxPivot(heap, M, col, n, col + 1, col))

\* x[i] = M[i][n] - sum(M[i][j] * x[j] for j in range(i + 1, n))
BackSubstituteRow(heap, M, i, n, x) ==
    FSub(Get(heap, M, i, n),
         PySum([t \in 1..(n - 1 - i) |-> FMul(Get(heap, M, i, i + t), x[i + t + 1])],
               1, Zero))

\* back substitution: for i in range(i, -1, -1), x built from the last entry
RECURSIVE BackSubstitute(_, _, _, _, _)
BackSubstitute(heap, M, i, n, x) ==
    IF i < 0 \/ ~Ready(x) THEN x
    ELSE BackSubstitute(heap, M, i - 1, n,
                        [x EXCEPT ![i + 1] = BackSubstituteRow(heap, M, i, n, x)])

\* solve after the forward elimination fw of the augmented matrix at M
SolveFinish(fw, M, n) ==
    IF ~fw.ok THEN RunResult(fw.heap, M, Err("SingularMatrix"))
    ELSE RunResult(fw.heap, M,
                   Val(BackSubstitute(fw.heap, M, n - 1, n, [i \in 1..n |-> Zero])))

\* solve once the augmented matrix is built: it is the last list of heap
SolveAugmented(heap, n) == SolveFinish(SolveLoop(heap, Len(heap), 0, n), Len(heap), n)

\* solve with the length of b compared with n only after the forward
\* elimination and back substitution
SolveShaped_length_checked_late(heap, A, b, sh) ==
    IF ~IsVal(sh) THEN RunResult(heap, 0, sh)
    ELSE IF sh.val[1] # sh.val[2] THEN RunResult(heap, 0, Err("ShapeMismatch"))
    ELSE IF Len(heap[b]) < sh.val[1] THEN RunResult(heap, 0, Err("ShapeMismatch"))
    ELSE LET run == SolveAugmented(
                        StoreRows(heap, [i \in 1..sh.val[1] |->
                                           Append(heap[heap[A][i]], heap[b][i])]),
                        sh.val[1])
         IN  IF IsVal(run.out) /\ Len(heap[b]) # sh.val[1]
             THEN RunResult(run.heap, run.M, Err("ShapeMismatch"))
             ELSE run

\* solve once shape(A) has returned sh;
\* M = [A[i][:] + [float(b[i])] for i in range(n)]
SolveShaped(heap, A, b, sh) ==
    IF ~IsVal(sh) THEN RunResult(heap, 0, sh)
    ELSE IF sh.val[1] # sh.val[2] THEN RunResult(heap, 0, Err("ShapeMismatch"))
    ELSE IF Len(heap[b]) # sh.val[1] THEN RunResult(heap, 0, Err("ShapeMismatch"))
    ELSE SolveAugmented(
             StoreRows(heap, [i \in 1..sh.val[1] |->
                                Append(heap[heap[A][i]], heap[b][i])]),
             sh.val[1])

\* solve(A, b) for the matrix at address A and the vector at address b
SolveRun(heap, A, b) == SolveShaped(heap, A, b, shape(Load(heap, A)))

\* inverse's "eliminate other rows": for r in range(r, n)
RECURSIVE InverseEliminate(_, _, _, _, _)
InverseEliminate(heap, M, col, r, n) ==
    IF r >= n \/ ~Ready(heap) THEN heap
    ELSE IF r = col THEN InverseEliminate(heap, M, col, r + 1, n)
    ELSE InverseEliminate(EliminateRow(heap, M, r, col, Get(heap, M, r, col),
                                       0, 2 * n),
                          M, col, r + 1, n)

RECURSIVE InverseLoop(_, _, _, _)

\* inverse at column col with the pivot row in place: normalize the pivot
\* row, eliminate the other rows, next column
InversePivoted(heap, M, col, n) ==
    InverseLoop(InverseEliminate(RowDivide(heap, M, col, Get(heap, M, col, col),
                                           0, 2 * n),
                                 M, col, 0, n),
                M, col + 1, n)

\* inverse at column col once pivot_row is chosen
InverseColumn(heap, M, col, n, pivot_row) ==
    IF PivotTooSmall(Get(heap, M, pivot_row, col)) THEN Eliminated(heap, FALSE)
    ELSE InversePivoted(SwapIfNeeded(heap, M, col, pivot_row), M, col, n)

\* inverse's loop: for col in range(col, n)
InverseLoop(heap, M, col, n) ==
    IF col >= n \/ ~Ready(heap) THEN Eliminated(heap, TRUE)
    ELSE InverseColumn(heap, M, col, n, MaxPivot(heap, M, col, n, col + 1, col))

\* inverse after the elimination gj of the augmented matrix at M:
\* [row[n:] for row in M]
InverseFinish(gj, M, n) ==
    IF ~gj.ok THEN RunResult(gj.heap, M, Err("SingularMatrix"))
    ELSE RunResult(gj.heap, M,
                   Val([i \in 1..n |-> SubSeq(gj.heap[gj.heap[M][i]], n + 1, 2 * n)]))

\* inverse once the augmented matrix is built: it is the last list of heap
InverseAugmented(heap, n) ==
    InverseFinish(InverseLoop(heap, Len(heap), 0, n), Len(heap), n)

\* inverse once shape(A) has returned sh;
\* M = [A[i][:] + identity(n)[i] for i in range(n)]
InverseShaped(heap, A, sh) ==
    IF ~IsVal(sh) THEN RunResult(heap, 0, sh)
    ELSE IF sh.val[1] # sh.val[2] THEN RunResult(heap, 0, Err("ShapeMismatch"))
    ELSE InverseAugmented(
             StoreRows(heap, [i \in 1..sh.val[1] |->
                                heap[heap[A][i]] \o identity(sh.val[1]).val[i]]),
             sh.val[1])

\* inverse(A) for the matrix at address A
InverseRun(heap, A) == InverseShaped(heap, A, shape(Load(heap, A)))

\* the functions on matrix values: the arguments are put on a fresh heap
det(A) == DetRun(StoreRows(<<>>, A), Len(A) + 1).out
solve(A, b) == SolveRun(StoreRows(<<>>, A) \o <<b>>, Len(A) + 1, Len(A) + 2).out
inverse(A) == InverseRun(StoreRows(<<>>, A), Len(A) + 1).out

(***************************************************************************)
(* Transforms.  A unit string is a sequence of one-character strings, so   *)
(* that str.lower() is computed character by character.  The strings of    *)
(* the model are ASCII strings: on them str.lower() maps 'A'..'Z' to       *)
(* 'a'..'z' and leaves every other character.  Cased characters outside    *)
(* ASCII, which str.lower() also maps, are outside the model.  math.cos    *)
(* and math.sin are tabulated on the angles the model draws.               *)
(***************************************************************************)
UpperAlpha == <<"A", "B", "C", "D", "E", "F", "G", "H", "I", "J", "K", "L", "M",
                "N", "O", "P", "Q", "R", "S", "T", "U", "V", "W", "X", "Y", "Z">>
LowerAlpha == <<"a", "b", "c", "d", "e", "f", "g", "h", "i", "j", "k", "l", "m",
                "n", "o", "p", "q", "r", "s", "t", "u", "v", "w", "x", "y", "z">>

\* unit.lower() for an ASCII string
lower(str) ==
    [k \in 1..Len(str) |->
        IF \E a \in 1..26 : UpperAlpha[a] = str[k]
        THEN LowerAlpha[CHOOSE a \in 1..26 : UpperAlpha[a] = str[k]]
        ELSE str[k]]

StrDegrees == <<"d", "e", "g", "r", "e", "e", "s">>
StrRadians == <<"r", "a", "d", "i", "a", "n", "s">>

\* math.radians(x): x * (pi / 180), pi / 180 = 0.017453292519943295
radians(x) == FMul(x, F(0, -58, 37480660, 38968633))

Angle90 == FromInt(90)
\* math.radians(90) = 1.5707963267948966
AngleHalfPi == F(0, -52, 52707178, 71576856)

\* math.cos(theta) on the angles 0, 90 and math.radians(90)
Cos(theta) ==
    IF IsZero(theta) THEN One
    ELSE IF theta = Angle90 THEN F(1, -54, 60139422, 98462309)
    ELSE IF theta = AngleHalfPi THEN F(0, -106, 37012678, 51665927)
    ELSE Zero

\* math.sin(theta) on the angles 0, 90 and math.radians(90)
Sin(theta) ==
    IF IsZero(theta) THEN theta
    ELSE IF theta = Angle90 THEN F(0, -53, 59995100, 68991078)
    ELSE IF theta = AngleHalfPi THEN One
    ELSE Zero

\* translate_2d(tx, ty)
translate_2d(tx, ty) ==
    <<<<One, Zero, tx>>,
      <<Zero, One, ty>>,
      <<Zero, Zero, One>>>>

\* translate_3d(tx, ty, tz)
translate_3d(tx, ty, tz) ==
    <<<<One, Zero, Zero, tx>>,
      <<Zero, One, Zero, ty>>,
      <<Zero, Zero, One, tz>>,
      <<Zero, Zero, Zero, One>>>>

\* theta after "if unit.lower() == 'degrees': theta = math.radians(theta)"
InRadians(theta, unit) ==
    IF lower(unit) = StrDegrees THEN radians(theta) ELSE theta

\* the unit is neither "degrees" nor "radians" when lowered
BadUnit(unit) == lower(unit) # StrDegrees /\ lower(unit) # StrRadians

\* the matrices returned for c = cos(theta) and s = sin(theta)
Rotation2d(c, s) ==
    <<<<c, FNeg(s), Zero>>,
      <<s, c, Zero>>,
      <<Zero, Zero, One>>>>

RotationX(c, s) ==
    <<<<One, Zero, Zero, Zero>>,
      <<Zero, c, FNeg(s), Zero>>,
      <<Zero, s, c, Zero>>,
      <<Zero, Zero, Zero, One>>>>

RotationY(c, s) ==
    <<<<c, Zero, s, Zero>>,
      <<Zero, One, Zero, Zero>>,
      <<FNeg(s), Zero, c, Zero>>,
      <<Zero, Zero, Zero, One>>>>

RotationZ(c, s) ==
    <<<<c, FNeg(s), Zero, Zero>>,
      <<s, c, Zero, Zero>>,
      <<Zero, Zero, One, Zero>>,
      <<Zero, Zero, Zero, One>>>>

Rotate2dBy(theta) == Rotation2d(Cos(theta), Sin(theta))
RotateXBy(theta) == RotationX(Cos(theta), Sin(theta))
RotateYBy(theta) == RotationY(Cos(theta), Sin(theta))
RotateZBy(theta) == RotationZ(Cos(theta), Sin(theta))

\* rotate_2d(theta, unit)
rotate_2d(theta, unit) ==
    IF BadUnit(unit) THEN Err("InvalidUnit")
    ELSE Val(Rotate2dBy(InRadians(theta, unit)))

\* rotate_x(theta, unit)
rotate_x(theta, unit) ==
    IF BadUnit(unit) THEN Err("InvalidUnit")
    ELSE Val(RotateXBy(InRadians(theta, unit)))

\* rotate_y(theta, unit)
rotate_y(theta, unit) ==
    IF BadUnit(unit) THEN Err("InvalidUnit")
    ELSE Val(RotateYBy(InRadians(theta, unit)))

\* rotate_z with the unit compared as given, without unit.lower()
rotate_z_exact_case(theta, unit) ==
    IF unit # StrDegrees /\ unit # StrRadians THEN Err("InvalidUnit")
    ELSE Val(RotateZBy(IF unit = StrDegrees THEN radians(theta) ELSE theta))

\* rotate_z(theta, unit)
rotate_z(theta, unit) ==
    IF BadUnit(unit) THEN Err("InvalidUnit")
    ELSE Val(RotateZBy(InRadians(theta, unit)))

\* the homogeneous divide with w read from the second component
Dehomogenize2d_wrong_w(out) ==
    IF ~IsVal(out) THEN out
    ELSE IF FEq(out.val[2], Zero) THEN Err("DegenerateTransform")
    ELSE Val(<<FDiv(out.val[1], out.val[2]), FDiv(out.val[2], out.val[2])>>)

\* apply_transform_2d after out = matvec(T, v): w = out[2], the test w == 0
\* and the division
Dehomogenize2d(out) ==
    IF ~IsVal(out) THEN out
    ELSE IF FEq(out.val[3], Zero) THEN Err("DegenerateTransform")
    ELSE Val(<<FDiv(out.val[1], out.val[3]), FDiv(out.val[2], out.val[3])>>)

\* apply_transform_2d(T, point)
apply_transform_2d(T, point) ==
    IF Len(point) # 2 THEN Err("ShapeMismatch")
    ELSE Dehomogenize2d(matvec(T, <<point[1], point[2], One>>))

\* apply_transform_3d after out = matvec(T, v): w = out[3], the test w == 0
\* and the division
Dehomogenize3d(out) ==
    IF ~IsVal(out) THEN out
    ELSE IF FEq(out.val[4], Zero) THEN Err("DegenerateTransform")
    ELSE Val(<<FDiv(out.val[1], out.val[4]), FDiv(out.val[2], out.val[4]),
               FDiv(out.val[3], out.val[4])>>)

\* apply_transform_3d(T, point)
apply_transform_3d(T, point) ==
    IF Len(point) # 3 THEN Err("ShapeMismatch")
    ELSE Dehomogenize3d(matvec(T, <<point[1], point[2], point[3], One>>))

(***************************************************************************)
(* The calls.  The library keeps no state between calls: a behaviour is    *)
(* one call of a public function.  Init draws the call and lays its list   *)
(* arguments out on the heap as the caller holds them; the action of the   *)
(* function called runs it to completion.                                  *)
(***************************************************************************)
\* bounds of the model
NumRows == 15
NumWide == 5
MaxDim == 3

\* the rows the square matrices are built from: (first entry, last entry)
RowList ==
    << <<One, Zero>>,
       <<FromInt(3), FromInt(7)>>,
       <<F(0, -96, 59029581, 4814466), Zero>>,               \* (1e-13, 0)
       <<FromInt(2), FromInt(4)>>,
       <<Zero, One>>,
       <<One, FromInt(2)>>,
       <<FromInt(2), Zero>>,
       <<Zero, FromInt(2)>>,
       <<eps, Zero>>,                                         \* (1e-12, 0)
       <<One, One>>,
       <<F(0, -96, 59029581, 4814466), One>>,                \* (1e-13, 1)
       <<FromInt(7), FromInt(1000000)>>,
       <<FromInt(-1), FromInt(2)>>,
       <<F(0, -96, 59029581, 4814466), F(0, -72, 35184372, 11922829)>>,  \* (1e-13, 1e-6)
       <<Zero, Zero>>,
       <<FromInt(5), FromInt(3)>> >>

Min(a, b) == IF a < b THEN a ELSE b

\* the first k rows of RowList
Rows(k) == {RowList[i] : i \in 1..Min(k, Len(RowList))}

\* the n x n matrix with first row (r1[1], 0, ..., 0, r1[2]), last row
\* (r2[1], 0, ..., 0, r2[2]) and rows i between them with 1 in columns 0 and i;
\* for n = 1 the matrix [[r1[1]]]
Embed(n, r1, r2) ==
    [i \in 1..n |->
        [j \in 1..n |->
            IF n = 1 THEN r1[1]
            ELSE IF i = 1 THEN (IF j = 1 THEN r1[1] ELSE IF j = n THEN r1[2] ELSE Zero)
            ELSE IF i = n THEN (IF j = 1 THEN r2[1] ELSE IF j = n THEN r2[2] ELSE Zero)
            ELSE IF j = 1 \/ j = i THEN One ELSE Zero]]

\* the vector (v[1], 1, ..., 1, v[2]) of length n; (v[1]) for n = 1
EmbedVec(n, v) ==
    [j \in 1..n |-> IF j = 1 THEN v[1] ELSE IF j = n THEN v[2] ELSE One]

\* square matrices of dimension 3 and more over the rows Rw
WideMats(Rw) == {Embed(n, r1, r2) : n \in 3..MaxDim, r1 \in Rw, r2 \in Rw}

\* square matrices: 1 x 1 and 2 x 2 over the rows R, larger over the rows Rw
SquareMats(R, Rw) ==
    {Embed(1, r, r) : r \in R} \cup {Embed(2, r1, r2) : r1 \in R, r2 \in R}
    \cup WideMats(Rw)

\* valid matrices that are not square: 1 x 2, 2 x 1 and 2 x 3
NonSquareMats(Rw) ==
    {<<r>> : r \in Rw}
    \cup {<<<<r[1]>>, <<r[2]>>>> : r \in Rw}
    \cup {<<<<r[1], r[2], One>>, <<r[2], r[1], Zero>>>> : r \in Rw}

\* small matrices, square or not
SmallMats(Rw) ==
    {Embed(n, r1, r2) : n \in 1..2, r1 \in Rw, r2 \in Rw} \cup NonSquareMats(Rw)

\* right-hand sides (first entry, last entry)
VecList == << <<FromInt(4), FromInt(6)>>, <<One, FromInt(-2)>> >>

Coord == {MinusOne, Zero, One}

\* unit strings
Units ==
    { StrDegrees, StrRadians,
      <<"D", "e", "g", "r", "e", "e", "s">>,
      <<"R", "A", "D", "I", "A", "N", "S">>,
      <<"d", "e", "g">>,
      <<>> }

Angles == {Zero, Angle90}

NoMat == <<>>
NoVec == <<>>

Call(op, A, B, v, i, j, x, unit) ==
    [op |-> op, A |-> A, B |-> B, v |-> v, i |-> i, j |-> j, x |-> x, unit |-> unit]

\* det, inverse, transpose and solve on the matrices S; solve with right-hand
\* sides of the length of A
MatrixCalls(S) ==
    {Call(op, A, NoMat, NoVec, 0, 0, Zero, <<>>) :
        op \in {"det", "inverse", "transpose"}, A \in S}
    \cup {Call("solve", A, NoMat, EmbedVec(Len(A), VecList[k]), 0, 0, Zero, <<>>) :
             A \in S, k \in 1..Len(VecList)}

\* on the matrices S: solve with a right-hand side one too long or one too
\* short, matmul of every pair
SmallCalls(S) ==
    {Call("solve", A, NoMat, EmbedVec(Len(A) + d, VecList[1]), 0, 0, Zero, <<>>) :
        A \in S, d \in {-1, 1}}
    \cup {Call("matmul", A, B, NoVec, 0, 0, Zero, <<>>) : A \in S, B \in S}

\* minor on the matrices S
MinorCalls(S) ==
    {Call("minor", A, NoMat, NoVec, i, j, Zero, <<>>) :
        A \in S, i \in 0..(MaxDim - 1), j \in 0..(MaxDim - 1)}

\* zeros, identity and the rotation builders
BuilderCalls ==
    {Call("zeros", NoMat, NoMat, NoVec, i, j, x, <<>>) :
        i \in 0..MaxDim, j \in 0..MaxDim, x \in {Zero, One}}
    \cup {Call("identity", NoMat, NoMat, NoVec, i, 0, Zero, <<>>) : i \in -1..MaxDim}
    \cup {Call(f, NoMat, NoMat, NoVec, 0, 0, x, u) :
             f \in {"rotate_2d", "rotate_x", "rotate_y", "rotate_z"},
             x \in Angles, u \in Units}

\* apply_transform_2d and apply_transform_3d: a translation by (3, 4) or
\* (3, 4, 5) with its last row replaced, on points over the coordinates C and
\* on points of a wrong length
ApplyCalls(C) ==
    {Call("apply_transform_2d",
          <<<<One, Zero, FromInt(3)>>, <<Zero, One, FromInt(4)>>, <<p, q, r>>>>,
          NoMat, pt, 0, 0, Zero, <<>>) :
        p \in C, q \in C, r \in C,
        pt \in {<<x, y>> : x \in C, y \in C} \cup {<<One>>, <<One, One, One>>}}
    \cup {Call("apply_transform_3d",
               <<<<One, Zero, Zero, FromInt(3)>>, <<Zero, One, Zero, FromInt(4)>>,
                 <<Zero, Zero, One, FromInt(5)>>, <<p, Zero, q, r>>>>,
               NoMat, pt, 0, 0, Zero, <<>>) :
             p \in C, q \in C, r \in C,
             pt \in {<<x, One, z>> : x \in C, z \in C}
                    \cup {<<One, One>>, <<One, One, One, One>>}}

\* the calls over the rows R (matrices up to 2 x 2) and Rw (the others)
CallsOver(R, Rw) ==
    MatrixCalls(SquareMats(R, Rw) \cup NonSquareMats(Rw))
    \cup SmallCalls(SmallMats(Rw))
    \cup MinorCalls(SmallMats(Rw) \cup WideMats(Rw))
    \cup BuilderCalls
    \cup ApplyCalls(Coord)

Calls == CallsOver(Rows(NumRows), Rows(NumWide))

\* the caller's lists on the heap: the rows of A at 1..Len(A), the outer list
\* of A next, then the vector
ArgHeap(c) == StoreRows(<<>>, c.A) \o <<c.v>>
AddrA(c) == Len(c.A) + 1
AddrV(c) == Len(c.A) + 2

VARIABLES
    call,      \* the function called and its arguments, as values
    heap,      \* the lists in memory
    work,      \* the address of the working copy M of det / solve / inverse (0: none)
    outcome,   \* the value returned or the error raised
    steps,     \* det only: the row exchanges, the column of the early return 0.0
               \* (-1: none) and max_abs at each column visited
    pc         \* "call" before the call, "done" after it

vars == <<call, heap, work, outcome, steps, pc>>

NoSteps == [swaps |-> 0, shortcut |-> -1, maxes |-> <<>>]

Init ==
    \E c \in Calls :
        /\ call = c
        /\ heap = ArgHeap(c)
        /\ work = 0
        /\ outcome = NoOutcome
        /\ steps = NoSteps
        /\ pc = "call"

Det ==
    /\ pc = "call"
    /\ call.op = "det"
    /\ \E r \in {DetRun(heap, AddrA(call))} :
           /\ heap' = r.heap
           /\ work' = r.M
           /\ outcome' = r.out
           /\ steps' = [swaps |-> r.swaps, shortcut |-> r.shortcut, maxes |-> r.maxes]
    /\ pc' = "done"
    /\ UNCHANGED call

Solve ==
    /\ pc = "call"
    /\ call.op = "solve"
    /\ \E r \in {SolveRun(heap, AddrA(call), AddrV(call))} :
           /\ heap' = r.heap
           /\ work' = r.M
           /\ outcome' = r.out
    /\ pc' = "done"
    /\ UNCHANGED <<call, steps>>

Inverse ==
    /\ pc = "call"
    /\ call.op = "inverse"
    /\ \E r \in {InverseRun(heap, AddrA(call))} :
           /\ heap' = r.heap
           /\ work' = r.M
           /\ outcome' = r.out
    /\ pc' = "done"
    /\ UNCHANGED <<call, steps>>

\* The other functions return a new value and work on no list of their own.
Transpose ==
    /\ pc = "call"
    /\ call.op = "transpose"
    /\ outcome' = transpose(Load(heap, AddrA(call)))
    /\ pc' = "done"
    /\ UNCHANGED <<call, heap, work, steps>>

Matmul ==
    /\ pc = "call"
    /\ call.op = "matmul"
    /\ outcome' = matmul(Load(heap, AddrA(call)), call.B)
    /\ pc' = "done"
    /\ UNCHANGED <<call, heap, work, steps>>

Minor ==
    /\ pc = "call"
    /\ call.op = "minor"
    /\ outcome' = minor(Load(heap, AddrA(call)), call.i, call.j)
    /\ pc' = "done"
    /\ UNCHANGED <<call, heap, work, steps>>

Zeros ==
    /\ pc = "call"
    /\ call.op = "zeros"
    /\ outcome' = zeros(call.i, call.j, call.x)
    /\ pc' = "done"
    /\ UNCHANGED <<call, heap, work, steps>>

Identity ==
    /\ pc = "call"
    /\ call.op = "identity"
    /\ outcome' = identity(call.i)
    /\ pc' = "done"
    /\ UNCHANGED <<call, heap, work, steps>>

Rotate2d ==
    /\ pc = "call"
    /\ call.op = "rotate_2d"
    /\ outcome' = rotate_2d(call.x, call.unit)
    /\ pc' = "done"
    /\ UNCHANGED <<call, heap, work, steps>>

RotateX ==
    /\ pc = "call"
    /\ call.op = "rotate_x"
    /\ outcome' = rotate_x(call.x, call.unit)
    /\ pc' = "done"
    /\ UNCHANGED <<call, heap, work, steps>>

RotateY ==
    /\ pc = "call"
    /\ call.op = "rotate_y"
    /\ outcome' = rotate_y(call.x, call.unit)
    /\ pc' = "done"
    /\ UNCHANGED <<call, heap, work, steps>>

RotateZ ==
    /\ pc = "call"
    /\ call.op = "rotate_z"
    /\ outcome' = rotate_z(call.x, call.unit)
    /\ pc' = "done"
    /\ UNCHANGED <<call, heap, work, steps>>

ApplyTransform2d ==
    /\ pc = "call"
    /\ call.op = "apply_transform_2d"
    /\ outcome' = apply_transform_2d(Load(heap, AddrA(call)), call.v)
    /\ pc' = "done"
    /\ UNCHANGED <<call, heap, work, steps>>

ApplyTransform3d ==
    /\ pc = "call"
    /\ call.op = "apply_transform_3d"
    /\ outcome' = apply_transform_3d(Load(heap, AddrA(call)), call.v)
    /\ pc' = "done"
    /\ UNCHANGED <<call, heap, work, steps>>

Next ==
    \/ Det
    \/ Solve
    \/ Inverse
    \/ Transpose
    \/ Matmul
    \/ Minor
    \/ Zeros
    \/ Identity
    \/ Rotate2d
    \/ RotateX
    \/ RotateY
    \/ RotateZ
    \/ ApplyTransform2d
    \/ ApplyTransform3d

Spec == Init /\ [][Next]_vars

(***************************************************************************)
(* Properties.  Each is stated of the state after a call: the arguments    *)
(* as passed (call), the lists in memory (heap), the outcome.              *)
(***************************************************************************)
\* the call of op has returned or raised
Done(op) == pc = "done" /\ call.op = op

\* A is a valid matrix / a valid square matrix
ValidMatrix(A) == IsVal(shape(A))
Square(A) == ValidMatrix(A) /\ shape(A).val[1] = shape(A).val[2]

\* the exact product of the significands of x and y, as eight 14-bit limbs
ExactLimbs(x, y) == MulColumns(Limbs(x), Limbs(y), 0, 0, <<>>)

\* the limbs of twice the number with limbs p, from limb k on
RECURSIVE DoubleLimbs(_, _, _)
DoubleLimbs(p, k, carry) ==
    IF k > Len(p) THEN <<carry>>
    ELSE <<(2 * p[k] + carry) % 2^14>>
         \o DoubleLimbs(p, k + 1, (2 * p[k] + carry) \div 2^14)

\* x1 * y1 = x2 * y2 as real numbers, without rounding.  Two non-zero
\* products of 53-bit significands are equal only if their exponents differ
\* by at most one.
SameProduct(x1, y1, x2, y2) ==
    LET z1 == IsZero(x1) \/ IsZero(y1)
        z2 == IsZero(x2) \/ IsZero(y2)
        e1 == x1.exp + y1.exp
        e2 == x2.exp + y2.exp
        p1 == ExactLimbs(x1, y1)
        p2 == ExactLimbs(x2, y2)
    IN  IF z1 \/ z2 THEN z1 /\ z2
        ELSE /\ (x1.sign = y1.sign) <=> (x2.sign = y2.sign)
             /\ \/ e1 = e2 /\ p1 = p2
                \/ e1 = e2 + 1 /\ DoubleLimbs(p1, 1, 0) = p2 \o <<0>>
                \/ e2 = e1 + 1 /\ DoubleLimbs(p2, 1, 0) = p1 \o <<0>>

\* The square matrices whose exact determinant is that of their four corners,
\* A[0][0] * A[n-1][n-1] - A[0][n-1] * A[n-1][0]: those of dimension 2, and
\* those of dimension 3 and more whose rows between the first and the last
\* have a 1 in column 0 and on the diagonal and whose first and last rows are
\* zero between the corners (expand along the columns 1 .. n-2).  For
\* dimension 1 the determinant is the entry.
CornerForm(A) ==
    Square(A)
    /\ (Len(A) <= 2
        \/ A = Embed(Len(A), <<A[1][1], A[1][Len(A)]>>, <<A[Len(A)][1], A[Len(A)][Len(A)]>>))

\* the exact determinant of A, for A in corner form, is zero
ExactlySingular(A) ==
    IF Len(A) = 1 THEN IsZero(A[1][1])
    ELSE SameProduct(A[1][1], A[Len(A)][Len(A)], A[1][Len(A)], A[Len(A)][1])

\* x is an integer of magnitude below 2^26, and that integer
IsSmallInt(x) ==
    IsZero(x)
    \/ (x.lo = 0 /\ x.exp >= -52 /\ x.exp <= -27 /\ x.hi % 2^(-27 - x.exp) = 0)
IntOf(x) ==
    IF IsZero(x) THEN 0
    ELSE (IF x.sign = 1 THEN -1 ELSE 1) * (x.hi \div 2^(-27 - x.exp))

\* every entry of A is a small integer
IntMatrix(A) == \A i \in 1..Len(A) : \A j \in 1..Len(A[i]) : IsSmallInt(A[i][j])

\* the exact determinant of an integer matrix in corner form
IntDet(A) ==
    IF Len(A) = 1 THEN IntOf(A[1][1])
    ELSE IntOf(A[1][1]) * IntOf(A[Len(A)][Len(A)])
         - IntOf(A[1][Len(A)]) * IntOf(A[Len(A)][1])

\* the tolerance of the round-trip properties: 1e-9
Tolerance == F(0, -82, 36028797, 2545301)

\* |x - y| <= 1e-9, entrywise for vectors and matrices
Near(x, y) == ~FGt(FAbs(FSub(x, y)), Tolerance)
NearVector(u, v) == Len(u) = Len(v) /\ \A k \in 1..Len(u) : Near(u[k], v[k])
NearMatrix(P, Q) == Len(P) = Len(Q) /\ \A i \in 1..Len(P) : NearVector(P[i], Q[i])

Two == FromInt(2)
Diag2 == <<<<Two, Zero>>, <<Zero, Two>>>>
Singular12 == <<<<One, Two>>, <<Two, FromInt(4)>>>>

\* C1: for every valid square matrix A, det(A) and det(transpose(A)) return
\* the same value, also when one of the two takes the singular shortcut.
C1_DetOfTranspose ==
    (Done("det") /\ Square(call.A)) =>
        /\ IsVal(outcome)
        /\ FEq(outcome.val, det(transpose(call.A).val).val)

\* C2: for every square matrix A whose exact determinant is not zero,
\* inverse(A) returns a matrix B, and matmul(A, B) is identity(n) within 1e-9
\* in every entry.
C2_InverseOfInvertible ==
    (Done("inverse") /\ CornerForm(call.A) /\ ~ExactlySingular(call.A)) =>
        /\ IsVal(outcome)
        /\ IsVal(matmul(call.A, outcome.val))
        /\ NearMatrix(matmul(call.A, outcome.val).val, identity(Len(call.A)).val)

\* C3: for every square matrix A and vector b of length n with exactly one
\* solution of A x = b (the exact determinant of A is not zero), solve(A, b)
\* returns a vector x of length n, and A times x is b within the tolerance;
\* solve([[2,0],[0,2]], [4,6]) returns [2.0, 3.0].
C3_SolveReconstructs ==
    (Done("solve") /\ CornerForm(call.A) /\ Len(call.v) = Len(call.A)
     /\ ~ExactlySingular(call.A)) =>
        /\ IsVal(outcome)
        /\ Len(outcome.val) = Len(call.A)
        /\ NearVector(matvec(call.A, outcome.val).val, call.v)
        /\ (call.A = Diag2 /\ call.v = <<FromInt(4), FromInt(6)>>
                => outcome.val = <<Two, FromInt(3)>>)

\* the largest absolute value in 0-based column col of M over the rows
\* col .. n-1
RECURSIVE ColumnMax(_, _, _)
ColumnMax(M, col, r) ==
    IF r > Len(M) THEN Zero
    ELSE IF FGt(FAbs(M[r][col + 1]), ColumnMax(M, col, r + 1)) THEN FAbs(M[r][col + 1])
    ELSE ColumnMax(M, col, r + 1)

\* C4 as stated: det never fails on a valid square matrix, and at any column
\* where the largest absolute value among the candidate rows is less than or
\* equal to 1e-12 it returns 0.0 at once; det([[1,2],[2,4]]) returns 0.0.
C4_ShortcutAtMostTolerance ==
    (Done("det") /\ Square(call.A)) =>
        /\ IsVal(outcome)
        /\ \A k \in 1..Len(steps.maxes) :
               ~FGt(steps.maxes[k], eps)
                   => steps.shortcut = k - 1 /\ outcome = Val(Zero)
        /\ (call.A = Singular12 => outcome = Val(Zero))

\* C4 amended: det never fails on a valid square matrix; at any column it
\* returns 0.0 at once exactly when the largest absolute value among the
\* candidate rows is strictly less than 1e-12 (an all-zero column included),
\* and a largest value of 1e-12 or more is taken as the pivot;
\* det([[1,2],[2,4]]) returns 0.0.
C4_ShortcutBelowTolerance ==
    (Done("det") /\ Square(call.A)) =>
        /\ IsVal(outcome)
        /\ work # 0
        /\ \A k \in 1..Len(steps.maxes) :
               /\ steps.maxes[k] = ColumnMax(Load(heap, work), k - 1, k)
               /\ FLt(steps.maxes[k], eps) <=> steps.shortcut = k - 1
        /\ steps.maxes[1] = ColumnMax(call.A, 0, 1)
        /\ IF steps.shortcut = -1
           THEN Len(steps.maxes) = Len(call.A)
           ELSE Len(steps.maxes) = steps.shortcut + 1 /\ outcome = Val(Zero)
        /\ (call.A = Singular12 => outcome = Val(Zero))

\* det([[1,2],[2,4]]) has returned 0.0 from its second column
C4_Witness ==
    Done("det") /\ call.A = Singular12 /\ steps.shortcut = 1 /\ outcome = Val(Zero)

\* C5: for every valid square matrix A whose exact determinant is zero,
\* inverse(A), and solve(A, b) for any b of length n, raise SingularMatrix and
\* return nothing.
C5_SingularRaises ==
    ((Done("inverse") \/ (Done("solve") /\ Len(call.v) = Len(call.A)))
     /\ CornerForm(call.A) /\ ExactlySingular(call.A)) =>
        Raises(outcome, "SingularMatrix") /\ outcome.val = <<>>

\* C6: det, solve and inverse leave the caller's lists as they were, whether
\* they return or raise: every row of A, the outer list of A (the row order)
\* and the vector b; and the working copy has no row of A among its rows.
C6_CallerDataUntouched ==
    (pc = "done" /\ call.op \in {"det", "solve", "inverse"}) =>
        /\ \A a \in 1..AddrV(call) : heap[a] = ArgHeap(call)[a]
        /\ Load(heap, AddrA(call)) = call.A
        /\ work # 0 =>
               \A i \in 1..Len(heap[work]) :
                   \A k \in 1..Len(heap[AddrA(call)]) :
                       heap[work][i] # heap[AddrA(call)][k]

\* det has exchanged rows and eliminated in its working copy
C6_Witness ==
    /\ Done("det")
    /\ steps.swaps > 0
    /\ work # 0
    /\ Load(heap, work) # call.A
    /\ Load(heap, AddrA(call)) = call.A

\* C7: apply_transform_2d raises ShapeMismatch unless the point has 2
\* components; otherwise, with out = T * (x, y, 1) and w = out[2], it raises
\* DegenerateTransform exactly when w == 0 and else returns
\* (out[0] / w, out[1] / w).  apply_transform_3d likewise with 3 components
\* and w = out[3].  apply_transform_2d(translate_2d(3, 4), (1, 1)) returns
\* (4.0, 5.0).
C7_ApplyTransform ==
    /\ Done("apply_transform_2d") =>
           IF Len(call.v) # 2 THEN Raises(outcome, "ShapeMismatch")
           ELSE LET v == <<call.v[1], call.v[2], One>>
                    w == dot(call.A[3], v).val
                IN  IF FEq(w, Zero) THEN Raises(outcome, "DegenerateTransform")
                    ELSE outcome = Val(<<FDiv(dot(call.A[1], v).val, w),
                                         FDiv(dot(call.A[2], v).val, w)>>)
    /\ Done("apply_transform_3d") =>
           IF Len(call.v) # 3 THEN Raises(outcome, "ShapeMismatch")
           ELSE LET v == <<call.v[1], call.v[2], call.v[3], One>>
                    w == dot(call.A[4], v).val
                IN  IF FEq(w, Zero) THEN Raises(outcome, "DegenerateTransform")
                    ELSE outcome = Val(<<FDiv(dot(call.A[1], v).val, w),
                                         FDiv(dot(call.A[2], v).val, w),
                                         FDiv(dot(call.A[3], v).val, w)>>)
    /\ (Done("apply_transform_2d")
        /\ call.A = translate_2d(FromInt(3), FromInt(4)) /\ call.v = <<One, One>>)
           => outcome = Val(<<FromInt(4), FromInt(5)>>)

\* apply_transform_2d(translate_2d(3, 4), (1, 1)) has returned (4.0, 5.0)
C7_Witness ==
    /\ Done("apply_transform_2d")
    /\ call.A = translate_2d(FromInt(3), FromInt(4))
    /\ call.v = <<One, One>>
    /\ outcome = Val(<<FromInt(4), FromInt(5)>>)

\* C8: every matrix returned by zeros, identity, transpose, matmul, minor or
\* inverse on valid arguments is a valid matrix (shape accepts it); and
\* minor(A, r, c), for r and c a row and a column of A, is A without row r and
\* column c: of shape (rows - 1, cols - 1), the other entries in their order.
C8_ResultsAreMatrices ==
    /\ (pc = "done" /\ IsVal(outcome)
        /\ call.op \in {"zeros", "identity", "transpose", "matmul", "inverse"})
           => ValidMatrix(outcome.val)
    /\ (Done("minor") /\ ValidMatrix(call.A)
        /\ call.i < Len(call.A) /\ call.j < Len(call.A[1])) =>
           /\ IsVal(outcome)
           /\ ValidMatrix(outcome.val)
           /\ shape(outcome.val).val = <<Len(call.A) - 1, Len(call.A[1]) - 1>>
           /\ \A r \in 1..(Len(call.A) - 1) : \A c \in 1..(Len(call.A[1]) - 1) :
                  outcome.val[r][c]
                      = call.A[IF r <= call.i THEN r ELSE r + 1]
                              [IF c <= call.j THEN c ELSE c + 1]

RotationBuilders == {"rotate_2d", "rotate_x", "rotate_y", "rotate_z"}

\* str is word up to the case of its letters (word in lower case)
SameWord(str, word) ==
    /\ Len(str) = Len(word)
    /\ \A k \in 1..Len(str) :
           \/ str[k] = word[k]
           \/ \E a \in 1..26 : LowerAlpha[a] = word[k] /\ UpperAlpha[a] = str[k]

\* each of the four builders returns a matrix for the call's unit, or none does
SameForAllBuilders ==
    /\ IsVal(outcome) <=> IsVal(rotate_2d(call.x, call.unit))
    /\ IsVal(outcome) <=> IsVal(rotate_x(call.x, call.unit))
    /\ IsVal(outcome) <=> IsVal(rotate_y(call.x, call.unit))
    /\ IsVal(outcome) <=> IsVal(rotate_z(call.x, call.unit))

\* C9 as stated: a rotation builder returns a matrix only for the unit
\* "degrees" or "radians"; for any other string it raises InvalidUnit and
\* returns nothing; the four builders accept the same strings.
C9_UnitExact ==
    (pc = "done" /\ call.op \in RotationBuilders) =>
        /\ IF call.unit = StrDegrees \/ call.unit = StrRadians
           THEN IsVal(outcome)
           ELSE Raises(outcome, "InvalidUnit") /\ outcome.val = <<>>
        /\ SameForAllBuilders

\* C9 amended: a rotation builder returns a matrix only for a unit that is
\* "degrees" or "radians" up to the case of its letters ("Degrees", "RADIANS");
\* for any other string it raises InvalidUnit and returns nothing; the four
\* builders accept the same strings.
C9_UnitUpToCase ==
    (pc = "done" /\ call.op \in RotationBuilders) =>
        /\ IF SameWord(call.unit, StrDegrees) \/ SameWord(call.unit, StrRadians)
           THEN IsVal(outcome)
           ELSE Raises(outcome, "InvalidUnit") /\ outcome.val = <<>>
        /\ SameForAllBuilders

\* rotate_z has returned a matrix for the unit "Degrees"
C9_Witness ==
    /\ Done("rotate_z")
    /\ call.unit = <<"D", "e", "g", "r", "e", "e", "s">>
    /\ IsVal(outcome)

\* sign * det_val as det accumulates it over the diagonal of the final
\* working matrix M: det_val = 1.0, det_val *= M[col][col] for col = 0, 1, ...
RECURSIVE PivotProduct(_, _, _)
PivotProduct(M, col, det_val) ==
    IF col > Len(M) THEN det_val
    ELSE PivotProduct(M, col + 1, FMul(det_val, M[col][col]))

\* C10: when det does not return through the singular shortcut, every entry
\* below a pivot in the pivot's column has been made zero, and the value
\* returned, (-1)^swaps times the product of the pivots, is the exact
\* determinant of A; det(identity(2)) = 1.0 and det([[2,0],[0,2]]) = 4.0.
C10_EliminationExact ==
    (Done("det") /\ Square(call.A) /\ steps.shortcut = -1) =>
        /\ IsVal(outcome)
        /\ \A r \in 1..Len(call.A) : \A c \in 1..(r - 1) :
               IsZero(Load(heap, work)[r][c])
        /\ outcome.val = FMul(IF steps.swaps % 2 = 0 THEN One ELSE MinusOne,
                              PivotProduct(Load(heap, work), 1, One))
        /\ (CornerForm(call.A) /\ IntMatrix(call.A))
               => FEq(outcome.val, FromInt(IntDet(call.A)))
        /\ (call.A = identity(2).val => outcome.val = One)
        /\ (call.A = Diag2 => outcome.val = FromInt(4))

\* the first column of A has no entry of magnitude 1e-12 or more: the first
\* pivot test of det, solve or inverse would find A singular
FirstPivotTooSmall(A) == \A i \in 1..Len(A) : PivotTooSmall(A[i][1])

\* the call has raised ShapeMismatch before building a working matrix and
\* before looking at any pivot: no working copy, memory as the caller left
\* it, no column visited
RejectedAtOnce ==
    /\ Raises(outcome, "ShapeMismatch")
    /\ outcome.val = <<>>
    /\ work = 0
    /\ heap = ArgHeap(call)
    /\ steps = NoSteps

\* C11: validation comes before elimination.  For every valid matrix A that
\* is not square, det, inverse and solve raise ShapeMismatch, and solve(A, b)
\* with A square and len(b) different from the number of rows of A raises
\* ShapeMismatch; in each case no pivot has been examined, so the call never
\* raises SingularMatrix and never returns a value, singular A included.
C11_ValidationFirst ==
    (pc = "done" /\ call.op \in {"det", "inverse", "solve"} /\ ValidMatrix(call.A)) =>
        /\ ~Square(call.A) => RejectedAtOnce
        /\ (call.op = "solve" /\ Square(call.A) /\ Len(call.v) # Len(call.A))
               => RejectedAtOnce

\* solve has raised ShapeMismatch for a right-hand side of the wrong length
\* on a square matrix whose first pivot is below the tolerance
C11_Witness ==
    /\ Done("solve")
    /\ Square(call.A)
    /\ Len(call.A) = 2
    /\ Len(call.v) # Len(call.A)
    /\ FirstPivotTooSmall(call.A)
    /\ Raises(outcome, "ShapeMismatch")

\* det has raised ShapeMismatch for a matrix that is not square and whose
\* first column is below the tolerance
C11_NonSquareSeen ==
    /\ Done("det")
    /\ ValidMatrix(call.A) /\ ~Square(call.A)
    /\ FirstPivotTooSmall(call.A)
    /\ Raises(outcome, "ShapeMismatch")

====
